---- MODULE Spec2Model ----
(***************************************************************************)
(* memgen.py: the ESP memory generator.  The driver reads a technology     *)
(* library and a list of memory requests, plans each request (banking      *)
(* factors and SRAM macro selection) and writes one Verilog wrapper per    *)
(* request.                                                                *)
(*                                                                         *)
(* Areas are integers (tenths of the unit of lib.txt); the float           *)
(* arithmetic of the source is exact on the values used here.              *)
(***************************************************************************)
EXTENDS Integers, Sequences, FiniteSets, TLC

VARIABLES
    techfile,     \* <tech>/lib.txt: one record per line
    tech_no,      \* lines of techfile consumed by read_techfile
    sram_list,    \* the loaded library, in file order
    infile,       \* the request file: one record per line
    mem_list,     \* the memories built by read_infile, then planned by gen
    pc,           \* position of the script
    line_no,      \* lines of infile consumed by read_infile
    tok_no,       \* index of the next op token of the current line
    mem_ops,      \* ops parsed so far for the current line
    cur,          \* index in mem_list of the request being handled (0: none yet)
    files,        \* the working directory: file name -> file
    exit_status,  \* -1 while running, else the status of the process
    report,       \* how a failure was reported
    gen_calls,    \* history: number of calls of gen per memory
    write_calls   \* history: number of calls of write_verilog per memory

vars == <<techfile, tech_no, sram_list, infile, mem_list, pc, line_no, tok_no, mem_ops, cur,
          files, exit_status, report, gen_calls, write_calls>>

(***************************************************************************)
(* Bounds of the model.                                                    *)
(***************************************************************************)
MaxCount == 4        \* largest access count of an op in the planner runs
MaxOps == 2          \* most ops of one request in the planner runs
MaxParseCount == 17  \* largest access count handed to parse_op
MaxLib == 2          \* most macros in a library
MaxReqs == 2         \* most requests in the driver runs

\* parse_op: "if read_number > 16 or read_number < 0"
MaxAccesses == 16

Names == {"A", "B"}

(***************************************************************************)
(* Helpers                                                                 *)
(***************************************************************************)
Max(a, b) == IF a >= b THEN a ELSE b

Min(a, b) == IF a <= b THEN a ELSE b

\* Python's & on integers (two's complement, unbounded): -1 is all ones.
RECURSIVE BitAnd(_, _)
BitAnd(a, b) ==
    IF a = 0 \/ b = 0 THEN 0
    ELSE IF a = -1 THEN b
    ELSE IF b = -1 THEN a
    ELSE (a % 2) * (b % 2) + 2 * BitAnd(a \div 2, b \div 2)

\* True if zero or power of 2
is_power2z(n) == BitAnd(n, n - 1) = 0

\* variant: the division truncated instead of rounded up
CeilDiv_Floor(a, b) == a \div b

\* int(math.ceil(a / b)) for b > 0
CeilDiv(a, b) == (a + b - 1) \div b

(***************************************************************************)
(* parse_op.  A token "<wn><wp>:<rn><rp>" is held split as the script      *)
(* splits it: the two numbers and the two pattern abbreviations.           *)
(***************************************************************************)
\* re.match(pattern, s, re.M|re.I) on the abbreviations used here: a match
\* at the start of s.
ReMatch(pattern, s) ==
    CASE pattern = "ru" -> s = "ru"
      [] pattern = "r"  -> s \in {"r", "ru"}
      [] pattern = "wu" -> s = "wu"
      [] pattern = "w"  -> s \in {"w", "wu"}

memory_operation(rn, rp, wn, wp) == [rn |-> rn, rp |-> rp, wn |-> wn, wp |-> wp]

\* The outcome of die_werr inside parse_op.
ParseDie == [die |-> TRUE, op |-> memory_operation(0, "none", 0, "none")]

ParseOk(rn, rp, wn, wp) == [die |-> FALSE, op |-> memory_operation(rn, rp, wn, wp)]

\* The read half: the pattern, or "die".
ReadPattern(tok) ==
    IF ReMatch("ru", tok.rabbrv) THEN "unknown"
    ELSE IF ReMatch("r", tok.rabbrv)
         THEN IF ~is_power2z(tok.rnum) THEN "die" ELSE "modulo"
         ELSE "die"

\* variant: without the test on reads beside 2 unknown writes
WritePattern_NoReadCheck(tok) ==
    IF ReMatch("wu", tok.wabbrv)
    THEN IF tok.wnum > 2 THEN "die" ELSE "unknown"
    ELSE IF ReMatch("w", tok.wabbrv)
         THEN IF ~is_power2z(tok.wnum) THEN "die" ELSE "modulo"
         ELSE "die"

\* The write half: the pattern, or "die".
WritePattern(tok) ==
    IF ReMatch("wu", tok.wabbrv)
    THEN IF tok.wnum > 2 THEN "die"
         ELSE IF tok.wnum = 2 /\ tok.rnum # 0 THEN "die"
         ELSE "unknown"
    ELSE IF ReMatch("w", tok.wabbrv)
         THEN IF ~is_power2z(tok.wnum) THEN "die" ELSE "modulo"
         ELSE "die"

parse_op(tok, mem_words) ==
    IF tok.rnum > mem_words \/ tok.wnum > mem_words THEN ParseDie
    ELSE IF tok.rnum > MaxAccesses \/ tok.rnum < 0 THEN ParseDie
    ELSE IF ReadPattern(tok) = "die" THEN ParseDie
    ELSE IF tok.wnum > MaxAccesses \/ tok.wnum < 0 THEN ParseDie
    ELSE IF WritePattern(tok) = "die" THEN ParseDie
    ELSE ParseOk(tok.rnum, ReadPattern(tok), tok.wnum, WritePattern(tok))

(***************************************************************************)
(* class sram, class memory                                                *)
(***************************************************************************)
sram(words, width, area, ports) ==
    [words |-> words, width |-> width, area |-> area, ports |-> ports]

\* A line of lib.txt, "<words> <width> <name> <area> <ports>".  first is
\* what the line begins with: "#", "word", or "" when the line holds nothing
\* but white space (line.split() is then empty).
TechLine(words, width, area, ports) ==
    [first |-> "word", words |-> words, width |-> width, area |-> area,
     ports |-> ports]

\* parse_sram: None (skip) for a macro with an unsupported number of ports
parse_sram(s) ==
    IF s.ports < 1 \/ s.ports > 2
    THEN [skip |-> TRUE, ram |-> sram(0, 0, 0, 0)]
    ELSE [skip |-> FALSE, ram |-> sram(s.words, s.width, s.area, s.ports)]

\* bank_type = None
NoBank == 0

\* area = float('inf')
InfArea == [inf |-> TRUE, v |-> 0]

FiniteArea(a) == [inf |-> FALSE, v |-> a]

\* memory.__init__ on top of the class attributes
memory(name, words, width, ops) ==
    [name |-> name, words |-> words, width |-> width, ops |-> ops,
     read_interfaces |-> 1, write_interfaces |-> 1,
     need_dual_port |-> FALSE, need_parallel_rw |-> FALSE,
     duplication_factor |-> 1, distribution_factor |-> 1,
     dbanks |-> 1, hbanks |-> 1, vbanks |-> 1, hhbanks |-> 1,
     bank_type |-> NoBank, area |-> InfArea]

\* The three die_werr of memory.__init__
MemoryInitDies(words, width, ops) ==
    words <= 0 \/ width <= 0 \/ Len(ops) = 0

(***************************************************************************)
(* memory.__find_hbanks                                                    *)
(***************************************************************************)
\* variant: need_dual_port without the need_parallel_rw term
InterfaceStep_NoParallelTerm(m, op) ==
    LET prw == m.need_parallel_rw \/ (op.rn > 0 /\ op.wn > 0)
    IN  [m EXCEPT
            !.read_interfaces = Max(m.read_interfaces, op.rn),
            !.write_interfaces = Max(m.write_interfaces, op.wn),
            !.need_parallel_rw = prw,
            !.need_dual_port =
                \/ m.need_dual_port
                \/ (op.wn = 2 /\ op.wp = "unknown")
                \/ (~prw /\ (op.rn > 1 \/ op.wn > 1))]

\* variant: write_interfaces taken from op.rn
InterfaceStep_SwappedMax(m, op) ==
    LET prw == m.need_parallel_rw \/ (op.rn > 0 /\ op.wn > 0)
    IN  [m EXCEPT
            !.read_interfaces = Max(m.read_interfaces, op.rn),
            !.write_interfaces = Max(m.write_interfaces, op.rn),
            !.need_parallel_rw = prw,
            !.need_dual_port =
                \/ m.need_dual_port
                \/ prw
                \/ (op.wn = 2 /\ op.wp = "unknown")
                \/ (~prw /\ (op.rn > 1 \/ op.wn > 1))]

\* One iteration of the first loop: the four assignments, in order (the
\* dual-port test reads the need_parallel_rw just updated).
InterfaceStep(m, op) ==
    LET ri == Max(m.read_interfaces, op.rn)
        wi == Max(m.write_interfaces, op.wn)
        prw == m.need_parallel_rw \/ (op.rn > 0 /\ op.wn > 0)
        dp == \/ m.need_dual_port
              \/ prw
              \/ (op.wn = 2 /\ op.wp = "unknown")
              \/ (~prw /\ (op.rn > 1 \/ op.wn > 1))
    IN  [m EXCEPT !.read_interfaces = ri, !.write_interfaces = wi,
                  !.need_parallel_rw = prw, !.need_dual_port = dp]

RECURSIVE InterfaceLoop(_, _)
InterfaceLoop(m, i) ==
    IF i > Len(m.ops) THEN m
    ELSE InterfaceLoop(InterfaceStep(m, m.ops[i]), i + 1)

\* op_duplication_factor of one op
OpDuplication(op) ==
    LET r == IF op.rp = "unknown" /\ op.rn > 1
             THEN IF op.wn = 0 THEN CeilDiv(op.rn, 2) ELSE op.rn
             ELSE 1
    IN  IF op.wp = "unknown" /\ op.wn > 1
        THEN IF op.rn = 0 THEN CeilDiv(op.wn, 2) ELSE Max(r, op.wn)
        ELSE r

RECURSIVE DuplicationLoop(_, _)
DuplicationLoop(m, i) ==
    IF i > Len(m.ops) THEN m
    ELSE DuplicationLoop(
            [m EXCEPT !.duplication_factor =
                Max(m.duplication_factor, OpDuplication(m.ops[i]))], i + 1)

\* variant: the halving decided by the op alone
OpDistribution_LocalParallel(op, need_parallel_rw) ==
    LET r == IF op.rp = "modulo" /\ op.rn > 1
             THEN IF op.wn # 0 THEN op.rn ELSE op.rn \div 2
             ELSE 1
    IN  IF op.wp = "modulo" /\ op.wn > 1
        THEN IF op.rn # 0 THEN Max(r, op.wn) ELSE op.wn \div 2
        ELSE r

\* op_distribution_factor of one op; n >> 1 is n \div 2 for n >= 0
OpDistribution(op, need_parallel_rw) ==
    LET r == IF op.rp = "modulo" /\ op.rn > 1
             THEN IF op.wn # 0 \/ need_parallel_rw THEN op.rn ELSE op.rn \div 2
             ELSE 1
    IN  IF op.wp = "modulo" /\ op.wn > 1
        THEN IF op.rn # 0 \/ need_parallel_rw
             THEN Max(r, op.wn) ELSE op.wn \div 2
        ELSE r

RECURSIVE DistributionLoop(_, _)
DistributionLoop(m, i) ==
    IF i > Len(m.ops) THEN m
    ELSE DistributionLoop(
            [m EXCEPT !.distribution_factor =
                Max(m.distribution_factor,
                    OpDistribution(m.ops[i], m.need_parallel_rw))], i + 1)

find_hbanks(m) ==
    LET m3 == DistributionLoop(DuplicationLoop(InterfaceLoop(m, 1), 1), 1)
    IN  [m3 EXCEPT !.dbanks = m3.duplication_factor,
                   !.hbanks = m3.distribution_factor]

(***************************************************************************)
(* memory.__find_vbanks                                                    *)
(***************************************************************************)
\* variant: no macro is skipped
SkipsMacro_Never(m, ram) == FALSE

\* "if self.need_dual_port and (ram.ports < 2): continue"
SkipsMacro(m, ram) == m.need_dual_port /\ ram.ports < 2

\* variant: ">=" for ">"
AreaGreater_OrEqual(a, new_area) == a.inf \/ a.v >= new_area

\* "self.area > new_area"
AreaGreater(a, new_area) == a.inf \/ a.v > new_area

\* One iteration of "for ram in lib" on macro number i
VbanksStep(m, lib, i) ==
    LET ram == lib[i]
        words_per_hbank == CeilDiv(m.words, m.hbanks)
        hh == CeilDiv(m.width, ram.width)
        v == CeilDiv(words_per_hbank, ram.words)
        new_area == m.dbanks * m.hbanks * hh * v * ram.area
    IN  IF SkipsMacro(m, ram) THEN m
        ELSE IF AreaGreater(m.area, new_area)
             THEN [m EXCEPT !.vbanks = v, !.hhbanks = hh, !.bank_type = i,
                            !.area = FiniteArea(new_area)]
             ELSE m

RECURSIVE VbanksLoop(_, _, _)
VbanksLoop(m, lib, i) ==
    IF i > Len(lib) THEN m
    ELSE VbanksLoop(VbanksStep(m, lib, i), lib, i + 1)

find_vbanks(m, lib) == VbanksLoop(m, lib, 1)

(***************************************************************************)
(* memory.gen: both planning passes, then the report of the plan, whose    *)
(* line "bank type " + str(self.bank_type.name) raises AttributeError when *)
(* bank_type is still None.                                                *)
(***************************************************************************)
gen(m, lib) == find_vbanks(find_hbanks(m), lib)

GenRaises(m) == m.bank_type = NoBank

(***************************************************************************)
(* memory.write_verilog: the module header.  A port is its signal and its  *)
(* interface number (CLK has none: -1).                                    *)
(***************************************************************************)
Port(sig, i) == [sig |-> sig, i |-> i]

WritePorts(i) ==
    <<Port("CE", i), Port("A", i), Port("D", i), Port("WE", i), Port("WEM", i)>>

ReadPorts(i) == <<Port("CE", i), Port("A", i), Port("Q", i)>>

\* "for i in range(lo, hi)" over the write tuples
RECURSIVE WriteRange(_, _)
WriteRange(lo, hi) ==
    IF lo >= hi THEN <<>> ELSE WritePorts(lo) \o WriteRange(lo + 1, hi)

\* "for i in range(lo, hi)" over the read tuples
RECURSIVE ReadRange(_, _)
ReadRange(lo, hi) ==
    IF lo >= hi THEN <<>> ELSE ReadPorts(lo) \o ReadRange(lo + 1, hi)

\* variant: the read tuples numbered from 0
ModulePorts_ReadsFromZero(m) ==
    <<Port("CLK", -1)>>
        \o WriteRange(0, m.write_interfaces)
        \o ReadRange(0, m.read_interfaces)

\* The port list of "module <name>(...)"
ModulePorts(m) ==
    <<Port("CLK", -1)>>
        \o WriteRange(0, m.write_interfaces)
        \o ReadRange(m.write_interfaces, m.write_interfaces + m.read_interfaces)

Decl(dir, sig, i) == [dir |-> dir, sig |-> sig, i |-> i]

WriteDecls(i) ==
    <<Decl("input", "CE", i), Decl("input", "A", i), Decl("input", "D", i),
      Decl("input", "WE", i), Decl("input", "WEM", i)>>

ReadDecls(i) ==
    <<Decl("input", "CE", i), Decl("input", "A", i), Decl("output", "Q", i)>>

RECURSIVE WriteDeclRange(_, _)
WriteDeclRange(lo, hi) ==
    IF lo >= hi THEN <<>> ELSE WriteDecls(lo) \o WriteDeclRange(lo + 1, hi)

RECURSIVE ReadDeclRange(_, _)
ReadDeclRange(lo, hi) ==
    IF lo >= hi THEN <<>> ELSE ReadDecls(lo) \o ReadDeclRange(lo + 1, hi)

\* The input/output declarations that follow the port list
ModuleDecls(m) ==
    <<Decl("input", "CLK", -1)>>
        \o WriteDeclRange(0, m.write_interfaces)
        \o ReadDeclRange(m.write_interfaces, m.write_interfaces + m.read_interfaces)

(***************************************************************************)
(* memory.write_verilog: the control block.  Each call of                  *)
(* __write_ctrl_assignment writes one routing assignment: interface iface  *)
(* drives port "port" of the banks of duplicated set "set", under the      *)
(* condition "h % gate_mod == gate_val" when gated.  op is the index in    *)
(* self.ops of the op whose kernel wrote it; check tells that the          *)
(* assignment carries a check_access call between translate guards.        *)
(***************************************************************************)
ASSERT_ON == TRUE

write_ctrl_assignment(m, op_no, duplicated_bank_set, port, iface, is_write, parallelism) ==
    [op |-> op_no, set |-> duplicated_bank_set, port |-> port, iface |-> iface,
     is_write |-> is_write,
     gated |-> parallelism # 0,
     gate_mod |-> IF parallelism # 0 THEN Min(parallelism, m.hbanks) ELSE 1,
     gate_val |-> IF parallelism # 0
                  THEN (IF is_write THEN iface ELSE iface - m.write_interfaces) % m.hbanks
                  ELSE 0,
     check |-> ASSERT_ON]

\* "p = (int(i / self.hbanks) + (i % self.bank_type.ports)) % self.bank_type.ports"
ModuloPort(m, ports, i) == ((i \div m.hbanks) + (i % ports)) % ports

\* "p = (int(ri / self.dbanks) + (ri % self.bank_type.ports)) % self.bank_type.ports"
UnknownPort(m, ports, ri) == ((ri \div m.dbanks) + (ri % ports)) % ports

\* "for d in range(0, self.dbanks): for wi in range(0, op.wn)" with p = 0
WritesOnPort0(m, j) ==
    LET op == m.ops[j] IN
    [k \in 1..(m.dbanks * op.wn) |->
        write_ctrl_assignment(m, j, (k - 1) \div op.wn, 0, (k - 1) % op.wn, TRUE, op.wn)]

\* Handle 2wu:0r
Handle_2wu_0r(m, ports, j) ==
    LET op == m.ops[j] IN
    IF op.wp = "unknown" /\ op.wn = 2
    THEN [k \in 1..(m.dbanks * op.wn) |->
            write_ctrl_assignment(m, j, (k - 1) \div op.wn, ((k - 1) % op.wn) % ports,
                                  (k - 1) % op.wn, TRUE, 0)]
    ELSE <<>>

\* Handle <N>w:0r with N power of 2
Handle_Nw_0r(m, ports, j) ==
    LET op == m.ops[j] IN
    IF op.rn = 0 /\ op.wp = "modulo"
    THEN [k \in 1..(m.dbanks * op.wn) |->
            LET wi == (k - 1) % op.wn
                p == IF ~m.need_parallel_rw THEN ModuloPort(m, ports, wi) ELSE 0
            IN  write_ctrl_assignment(m, j, (k - 1) \div op.wn, p, wi, TRUE, op.wn)]
    ELSE <<>>

\* Handle 0w:<N>r with N power of 2
Handle_0w_Nr(m, ports, j) ==
    LET op == m.ops[j] IN
    IF op.wn = 0 /\ op.rp = "modulo"
    THEN [k \in 1..op.rn |->
            LET ri == k - 1
                p == IF ~m.need_parallel_rw THEN ModuloPort(m, ports, ri) ELSE 1
            IN  write_ctrl_assignment(m, j, 0, p, ri + m.write_interfaces, FALSE, op.rn)]
    ELSE <<>>

\* variant: the reads of <N>r:<M>w share port 0 with the writes
Handle_Nr_Mw_ReadsOnPort0(m, ports, j) ==
    LET op == m.ops[j] IN
    IF op.wn > 0 /\ op.rn > 0 /\ op.wp = "modulo" /\ op.rp = "modulo"
    THEN WritesOnPort0(m, j)
            \o [k \in 1..op.rn |->
                  write_ctrl_assignment(m, j, 0, 0, (k - 1) + m.write_interfaces,
                                        FALSE, op.rn)]
    ELSE <<>>

\* Handle <N>r:<M>w with N and M power of 2
Handle_Nr_Mw(m, ports, j) ==
    LET op == m.ops[j] IN
    IF op.wn > 0 /\ op.rn > 0 /\ op.wp = "modulo" /\ op.rp = "modulo"
    THEN WritesOnPort0(m, j)
            \o [k \in 1..op.rn |->
                  write_ctrl_assignment(m, j, 0, 1, (k - 1) + m.write_interfaces,
                                        FALSE, op.rn)]
    ELSE <<>>

\* Handle <N>ru:0w with N > 1
Handle_Nru_0w(m, ports, j) ==
    LET op == m.ops[j] IN
    IF op.rn > 1 /\ op.wn = 0 /\ op.rp = "unknown"
    THEN [k \in 1..op.rn |->
            LET ri == k - 1
            IN  write_ctrl_assignment(m, j, ri % m.dbanks, UnknownPort(m, ports, ri),
                                      ri + m.write_interfaces, FALSE, 0)]
    ELSE <<>>

\* Handle <N>ru:<M>w with N > 1 and M power of 2
Handle_Nru_Mw(m, ports, j) ==
    LET op == m.ops[j] IN
    IF op.rn > 1 /\ op.wn > 0 /\ op.rp = "unknown" /\ op.wp = "modulo"
    THEN WritesOnPort0(m, j)
            \o [k \in 1..op.rn |->
                  write_ctrl_assignment(m, j, (k - 1) % m.dbanks, 1,
                                        (k - 1) + m.write_interfaces, FALSE, 0)]
    ELSE <<>>

\* the body of "for op in self.ops": six independent "if"s, in this order
HandleOp(m, ports, j) ==
    Handle_2wu_0r(m, ports, j) \o Handle_Nw_0r(m, ports, j)
        \o Handle_0w_Nr(m, ports, j) \o Handle_Nr_Mw(m, ports, j)
        \o Handle_Nru_0w(m, ports, j) \o Handle_Nru_Mw(m, ports, j)

\* "for op in self.ops", from op j on
RECURSIVE HandleOps(_, _, _)
HandleOps(m, ports, j) ==
    IF j > Len(m.ops) THEN <<>>
    ELSE HandleOp(m, ports, j) \o HandleOps(m, ports, j + 1)

\* the interfaces of "range(self.write_interfaces, self.write_interfaces +
\* self.read_interfaces)"
ReadIfaces(m) == m.write_interfaces..(m.write_interfaces + m.read_interfaces - 1)

\* Control selection: "assign ctrld[ri] = ..." (seld is ctrld one cycle later)
ControlSelection(m) ==
    [ri \in ReadIfaces(m) |-> IF m.dbanks > 1 THEN ri % m.dbanks ELSE 0]

\* Read port Q assignment: the port p of bank_Q[seld[ri]][selh[ri]][selv[ri]][hh][p]
ReadPortQ(m, ports) ==
    [ri \in ReadIfaces(m) |->
        IF ports = 1 THEN 0
        ELSE IF ~m.need_parallel_rw THEN ri % ports
        ELSE 1]

RECURSIVE Repeat(_, _)
Repeat(s, n) == IF n <= 0 THEN <<>> ELSE s \o Repeat(s, n - 1)

\* The "// synthesis translate_off" and "// synthesis translate_on" lines of
\* the file, in the order written: around the check_access task, around each
\* default of check_bank_access (one per set and port), around each
\* check_access call, and around the address-conflict assertion, whose
\* translate_on is written inside "for p0 ... for p1 in range(p0 + 1, ports)".
TranslateGuards(m, ports, ctrl) ==
    (IF ASSERT_ON THEN <<"off", "on">> ELSE <<>>)
        \o Repeat(IF ASSERT_ON THEN <<"off", "on">> ELSE <<>>, m.dbanks * ports)
        \o Repeat(<<"off", "on">>, Cardinality({k \in 1..Len(ctrl) : ctrl[k].check}))
        \o (IF ASSERT_ON
            THEN <<"off">> \o Repeat(<<"on">>, (ports * (ports - 1)) \div 2)
            ELSE <<>>)

(***************************************************************************)
(* The working directory.  A file is absent, open or closed; owner is the  *)
(* index in mem_list of the request that opened it last; complete is set   *)
(* once the whole module text has been written.  Of the text the file      *)
(* keeps the port list, the declarations, the control selection (ctrld),   *)
(* the control block (ctrl), the read ports (readq) and the guards.        *)
(***************************************************************************)
AbsentFile ==
    [state |-> "absent", owner |-> 0, complete |-> FALSE,
     ports |-> <<>>, decls |-> <<>>,
     ctrld |-> <<>>, ctrl |-> <<>>, readq |-> <<>>, guards |-> <<>>]

\* open(self.name + ".v", 'w'): creates the file or truncates it
OpenWrite(f, k) ==
    [state |-> "open", owner |-> k, complete |-> FALSE,
     ports |-> <<>>, decls |-> <<>>,
     ctrld |-> <<>>, ctrl |-> <<>>, readq |-> <<>>, guards |-> <<>>]

\* every fd.write of write_verilog; self.bank_type is a macro of sram_list
WriteText(f, m) ==
    LET ports == sram_list[m.bank_type].ports
        ctrl == HandleOps(m, ports, 1)
    IN  [f EXCEPT !.complete = TRUE,
                  !.ports = ModulePorts(m),
                  !.decls = ModuleDecls(m),
                  !.ctrld = ControlSelection(m),
                  !.ctrl = ctrl,
                  !.readq = ReadPortQ(m, ports),
                  !.guards = TranslateGuards(m, ports, ctrl)]

\* variant: the file is left open
CloseFile_Forgotten(f) == f

\* fd.close(), or the descriptor released when the process ends
CloseFile(f) == [f EXCEPT !.state = "closed"]

(***************************************************************************)
(* The script                                                              *)
(***************************************************************************)
\* die_werr(message): "  ERROR: ..." on stdout, sys.exit(2)
DieWerr ==
    /\ pc' = "exited"
    /\ exit_status' = 2
    /\ report' = "ERROR"

\* an exception nobody catches: traceback on stderr, status 1
Uncaught ==
    /\ pc' = "exited"
    /\ exit_status' = 1
    /\ report' = "Traceback"

\* read_techfile: "for line in fd".  A line matched by r'#\.*' is skipped;
\* on any other line parse_sram takes item[0] of line.split(), which raises
\* IndexError when the line is blank.
ReadTechLine ==
    /\ pc = "read_techfile"
    /\ tech_no < Len(techfile)
    /\ tech_no' = tech_no + 1
    /\ LET line == techfile[tech_no + 1]
       IN  IF line.first = "#"
           THEN UNCHANGED <<sram_list, pc, exit_status, report>>
           ELSE IF line.first = ""
           THEN /\ Uncaught
                /\ UNCHANGED sram_list
           ELSE /\ sram_list' = IF parse_sram(line).skip
                                THEN sram_list
                                ELSE Append(sram_list, parse_sram(line).ram)
                /\ UNCHANGED <<pc, exit_status, report>>
    /\ UNCHANGED <<techfile, infile, mem_list, line_no, tok_no, mem_ops, cur,
                   files, gen_calls, write_calls>>

\* read_techfile: end of file, fd.close(); the script calls read_infile
ReadTechEOF ==
    /\ pc = "read_techfile"
    /\ tech_no = Len(techfile)
    /\ pc' = "read_infile"
    /\ UNCHANGED <<techfile, tech_no, sram_list, infile, mem_list, line_no,
                   tok_no, mem_ops, cur, files, exit_status, report,
                   gen_calls, write_calls>>

\* read_infile: "for line in fd", item = line.split().  A line matched by
\* r'#\.*' is skipped; on any other line item[0] is taken, which raises
\* IndexError when the line is blank.
ReadLine ==
    /\ pc = "read_infile"
    /\ line_no < Len(infile)
    /\ line_no' = line_no + 1
    /\ LET line == infile[line_no + 1]
       IN  IF line.first = "#"
           THEN UNCHANGED <<pc, tok_no, mem_ops, exit_status, report>>
           ELSE IF line.first = ""
           THEN /\ Uncaught
                /\ UNCHANGED <<tok_no, mem_ops>>
           ELSE /\ tok_no' = 1
                /\ mem_ops' = <<>>
                /\ pc' = "parse_ops"
                /\ UNCHANGED <<exit_status, report>>
    /\ UNCHANGED <<techfile, tech_no, sram_list, infile, mem_list, cur, files,
                   gen_calls, write_calls>>

\* read_infile: mem_ops.append(parse_op(item[i], mem_words))
ParseNextOp ==
    /\ pc = "parse_ops"
    /\ tok_no <= Len(infile[line_no].toks)
    /\ LET r == parse_op(infile[line_no].toks[tok_no], infile[line_no].words)
       IN  IF r.die
           THEN /\ DieWerr
                /\ UNCHANGED <<tok_no, mem_ops>>
           ELSE /\ mem_ops' = Append(mem_ops, r.op)
                /\ tok_no' = tok_no + 1
                /\ UNCHANGED <<pc, exit_status, report>>
    /\ UNCHANGED <<techfile, tech_no, sram_list, infile, mem_list, line_no, cur, files,
                   gen_calls, write_calls>>

\* read_infile: mem = memory(...); mem_list.append(mem)
MakeMemory ==
    /\ pc = "parse_ops"
    /\ tok_no > Len(infile[line_no].toks)
    /\ LET l == infile[line_no]
       IN  IF MemoryInitDies(l.words, l.width, mem_ops)
           THEN /\ DieWerr
                /\ UNCHANGED <<mem_list, gen_calls, write_calls>>
           ELSE /\ mem_list' = Append(mem_list, memory(l.name, l.words, l.width, mem_ops))
                /\ gen_calls' = Append(gen_calls, 0)
                /\ write_calls' = Append(write_calls, 0)
                /\ pc' = "read_infile"
                /\ UNCHANGED <<exit_status, report>>
    /\ UNCHANGED <<techfile, tech_no, sram_list, infile, line_no, tok_no, mem_ops, cur, files>>

\* read_infile: end of file, fd.close(); the script enters "for mem in mem_list"
ReadEOF ==
    /\ pc = "read_infile"
    /\ line_no = Len(infile)
    /\ pc' = "loop"
    /\ UNCHANGED <<techfile, tech_no, sram_list, infile, mem_list, line_no, tok_no, mem_ops, cur,
                   files, exit_status, report, gen_calls, write_calls>>

\* "for mem in mem_list": the next memory
NextMem(k) == k + 1

\* mem.print(); mem.gen(sram_list)
Gen ==
    /\ pc = "loop"
    /\ cur < Len(mem_list)
    /\ cur' = NextMem(cur)
    /\ LET planned == gen(mem_list[cur'], sram_list)
       IN  /\ mem_list' = [mem_list EXCEPT ![cur'] = planned]
           /\ gen_calls' = [gen_calls EXCEPT ![cur'] = @ + 1]
           /\ IF GenRaises(planned)
              THEN Uncaught
              ELSE /\ pc' = "open"
                   /\ UNCHANGED <<exit_status, report>>
    /\ UNCHANGED <<techfile, tech_no, sram_list, infile, line_no, tok_no, mem_ops, files, write_calls>>

\* mem.write_verilog(): fd = open(self.name + ".v", 'w').  On IOError the
\* handler calls die_werr(e), whose "  ERROR: " + e raises TypeError.
WriteVerilogOpen ==
    /\ pc = "open"
    /\ write_calls' = [write_calls EXCEPT ![cur] = @ + 1]
    /\ \/ /\ files' = [files EXCEPT ![mem_list[cur].name] = OpenWrite(@, cur)]
          /\ pc' = "write"
          /\ UNCHANGED <<exit_status, report>>
       \/ /\ Uncaught
          /\ UNCHANGED files
    /\ UNCHANGED <<techfile, tech_no, sram_list, infile, mem_list, line_no, tok_no, mem_ops, cur,
                   gen_calls>>

\* mem.write_verilog(): the fd.write calls; one of them may raise (the
\* file keeps what was written before it)
WriteVerilogText ==
    /\ pc = "write"
    /\ \/ /\ files' = [files EXCEPT ![mem_list[cur].name] = WriteText(@, mem_list[cur])]
          /\ pc' = "close"
          /\ UNCHANGED <<exit_status, report>>
       \/ /\ Uncaught
          /\ files' = [files EXCEPT ![mem_list[cur].name] = CloseFile(@)]
    /\ UNCHANGED <<techfile, tech_no, sram_list, infile, mem_list, line_no, tok_no, mem_ops, cur,
                   gen_calls, write_calls>>

\* mem.write_verilog(): fd.close()
WriteVerilogClose ==
    /\ pc = "close"
    /\ files' = [files EXCEPT ![mem_list[cur].name] = CloseFile(@)]
    /\ pc' = "loop"
    /\ UNCHANGED <<techfile, tech_no, sram_list, infile, mem_list, line_no, tok_no, mem_ops, cur,
                   exit_status, report, gen_calls, write_calls>>

\* the loop is exhausted: the script ends, status 0
Finish ==
    /\ pc = "loop"
    /\ cur = Len(mem_list)
    /\ pc' = "done"
    /\ exit_status' = 0
    /\ UNCHANGED <<techfile, tech_no, sram_list, infile, mem_list, line_no, tok_no, mem_ops, cur,
                   files, report, gen_calls, write_calls>>

(***************************************************************************)
(* Inputs                                                                  *)
(***************************************************************************)
Token(wnum, wabbrv, rnum, rabbrv) ==
    [wnum |-> wnum, wabbrv |-> wabbrv, rnum |-> rnum, rabbrv |-> rabbrv]

\* A line of the request file, "<name> <words> <width> <op> ...".  first is
\* what the line begins with, as for TechLine.
Line(name, words, width, toks) ==
    [first |-> "word", name |-> name, words |-> words, width |-> width,
     toks |-> toks]

\* the lines of lib.txt a library was loaded from
TechLinesOf(lib) ==
    [i \in 1..Len(lib) |->
        TechLine(lib[i].words, lib[i].width, lib[i].area, lib[i].ports)]

SeqsUpTo(S, lo, hi) == UNION {[1..n -> S] : n \in lo..hi}

NoFiles == [n \in Names |-> AbsentFile]

\* The library of the scenarios: one single-port and one dual-port macro
\* of 1024 words of 32 bits, areas 1.0 and 1.8.
SinglePort1024 == sram(1024, 32, 10, 1)

DualPort1024 == sram(1024, 32, 18, 2)

\* Small macros for the selection runs: two depths, two widths, both port
\* counts, areas that tie and areas that trade depth against width.
SmallMacros ==
    {sram(2, 1, 3, 1), sram(4, 2, 5, 1), sram(2, 2, 4, 2),
     sram(4, 1, 4, 2), sram(4, 2, 10, 2)}

\* Tokens of well-formed ops with counts up to MaxCount
PlanTokens ==
    {Token(wn, wa, rn, ra) :
        wn \in 0..MaxCount, wa \in {"w", "wu"}, rn \in 0..MaxCount, ra \in {"r", "ru"}}

AcceptedTokens(words) == {t \in PlanTokens : ~parse_op(t, words).die}

ParsedOps(toks, words) == [i \in 1..Len(toks) |-> parse_op(toks[i], words).op]

\* The state read_infile leaves after a file of one well-formed line
AfterReadOf(line, lib) ==
    /\ techfile = TechLinesOf(lib)
    /\ tech_no = Len(lib)
    /\ sram_list = lib
    /\ infile = <<line>>
    /\ mem_list = <<memory(line.name, line.words, line.width,
                           ParsedOps(line.toks, line.words))>>
    /\ pc = "loop"
    /\ line_no = 1
    /\ tok_no = Len(line.toks) + 1
    /\ mem_ops = ParsedOps(line.toks, line.words)
    /\ cur = 0
    /\ files = NoFiles
    /\ exit_status = -1
    /\ report = "none"
    /\ gen_calls = <<0>>
    /\ write_calls = <<0>>

\* The state after read_techfile, before read_infile
BeforeReadOf(lines, lib) ==
    /\ techfile = TechLinesOf(lib)
    /\ tech_no = Len(lib)
    /\ sram_list = lib
    /\ infile = lines
    /\ mem_list = <<>>
    /\ pc = "read_infile"
    /\ line_no = 0
    /\ tok_no = 1
    /\ mem_ops = <<>>
    /\ cur = 0
    /\ files = NoFiles
    /\ exit_status = -1
    /\ report = "none"
    /\ gen_calls = <<>>
    /\ write_calls = <<>>

(***************************************************************************)
(* SpecParse: read_infile on a file of one line holding one op token, for  *)
(* every count from -1 to MaxParseCount and every abbreviation.            *)
(***************************************************************************)
ParseTokens ==
    {Token(wn, wa, rn, ra) :
        wn \in -1..MaxParseCount, wa \in {"w", "wu", "q"},
        rn \in -1..MaxParseCount, ra \in {"r", "ru", "q"}}

ParseWords == {0, 1, 2, 5, MaxParseCount + 1}

InitParse ==
    \E t \in ParseTokens, w \in ParseWords :
        BeforeReadOf(<<Line("A", w, 1, <<t>>)>>, <<>>)

NextParse == ReadLine \/ ParseNextOp \/ MakeMemory \/ ReadEOF

SpecParse == InitParse /\ [][NextParse]_vars

(***************************************************************************)
(* SpecPlan: gen on one request of 1024 words of 32 bits with every list   *)
(* of up to MaxOps accepted ops, against the library of the scenarios.     *)
(***************************************************************************)
InitPlan ==
    \E toks \in SeqsUpTo(AcceptedTokens(1024), 1, MaxOps) :
        AfterReadOf(Line("A", 1024, 32, toks), <<SinglePort1024, DualPort1024>>)

NextPlan == Gen

SpecPlan == InitPlan /\ [][NextPlan]_vars

(***************************************************************************)
(* SpecRequest: gen and write_verilog on one request with one accepted     *)
(* op, for several sizes, against every library of up to MaxLib small      *)
(* macros.                                                                 *)
(***************************************************************************)
RequestWords == {1, 5, 8}

RequestWidths == {1, 3}

InitRequest ==
    \E w \in RequestWords, b \in RequestWidths :
        \E t \in AcceptedTokens(w), lib \in SeqsUpTo(SmallMacros, 0, MaxLib) :
            AfterReadOf(Line("A", w, b, <<t>>), lib)

NextRequest ==
    Gen \/ WriteVerilogOpen \/ WriteVerilogText \/ WriteVerilogClose \/ Finish

SpecRequest == InitRequest /\ [][NextRequest]_vars

(***************************************************************************)
(* SpecScenario: gen and write_verilog on one request of 1024 or 2048      *)
(* words of 32 bits with up to MaxOps ops taken from the scenarios,        *)
(* against every library of up to MaxLib macros of the scenarios.          *)
(***************************************************************************)
ScenarioTokens ==
    {Token(1, "w", 1, "r"),     \* 1w:1r
     Token(0, "w", 4, "r"),     \* 0w:4r
     Token(4, "w", 4, "r"),     \* 4w:4r
     Token(0, "w", 2, "ru"),    \* 2ru:0w
     Token(2, "wu", 0, "r"),    \* 2wu:0r
     Token(2, "w", 0, "r"),     \* 2w:0r
     Token(1, "w", 0, "r")}     \* 1w:0r

ScenarioWords == {1024, 2048}

InitScenario ==
    \E w \in ScenarioWords, toks \in SeqsUpTo(ScenarioTokens, 1, MaxOps),
       lib \in SeqsUpTo({SinglePort1024, DualPort1024}, 0, MaxLib) :
        AfterReadOf(Line("A", w, 32, toks), lib)

NextScenario ==
    Gen \/ WriteVerilogOpen \/ WriteVerilogText \/ WriteVerilogClose \/ Finish

SpecScenario == InitScenario /\ [][NextScenario]_vars

(***************************************************************************)
(* SpecRead: read_techfile and read_infile on files of up to MaxLib and    *)
(* MaxReqs lines, among them comment lines and blank lines.                *)
(***************************************************************************)
CommentTechLine == [first |-> "#", words |-> 0, width |-> 0, area |-> 0, ports |-> 0]

BlankTechLine == [first |-> "", words |-> 0, width |-> 0, area |-> 0, ports |-> 0]

CommentLine == [first |-> "#", name |-> "#", words |-> 0, width |-> 0, toks |-> <<>>]

BlankLine == [first |-> "", name |-> "", words |-> 0, width |-> 0, toks |-> <<>>]

\* the two macros of the scenarios, a macro with 3 ports, a comment, a blank
ReadTechLines ==
    {TechLine(1024, 32, 10, 1), TechLine(1024, 32, 18, 2), TechLine(1024, 32, 25, 3),
     CommentTechLine, BlankTechLine}

ReadInLines ==
    {Line("A", 1024, 32, <<Token(1, "w", 0, "r")>>),
     Line("B", 2048, 32, <<Token(1, "w", 1, "r")>>),
     CommentLine, BlankLine}

InitRead ==
    /\ techfile \in SeqsUpTo(ReadTechLines, 0, MaxLib)
    /\ infile \in SeqsUpTo(ReadInLines, 0, MaxReqs)
    /\ tech_no = 0
    /\ sram_list = <<>>
    /\ mem_list = <<>>
    /\ pc = "read_techfile"
    /\ line_no = 0
    /\ tok_no = 1
    /\ mem_ops = <<>>
    /\ cur = 0
    /\ files = NoFiles
    /\ exit_status = -1
    /\ report = "none"
    /\ gen_calls = <<>>
    /\ write_calls = <<>>

NextRead ==
    \/ ReadTechLine
    \/ ReadTechEOF
    \/ ReadLine
    \/ ParseNextOp
    \/ MakeMemory
    \/ ReadEOF

SpecRead == InitRead /\ [][NextRead]_vars

(***************************************************************************)
(* Spec: the whole script on files of up to MaxReqs lines, against every   *)
(* library of up to MaxLib macros of the scenarios.                        *)
(***************************************************************************)
DriverTokens ==
    {<<Token(1, "w", 1, "r")>>,     \* 1w:1r: needs a dual-port macro
     <<Token(1, "w", 0, "r")>>,     \* 1w:0r: any macro
     <<Token(2, "wu", 1, "r")>>,    \* 2wu:1r: rejected by parse_op
     <<>>}                          \* no op: rejected by memory.__init__

DriverLines == {Line(n, 1024, 32, toks) : n \in Names, toks \in DriverTokens}

Init ==
    \E lines \in SeqsUpTo(DriverLines, 0, MaxReqs),
       lib \in SeqsUpTo({SinglePort1024, DualPort1024}, 0, MaxLib) :
        BeforeReadOf(lines, lib)

Next ==
    \/ ReadLine
    \/ ParseNextOp
    \/ MakeMemory
    \/ ReadEOF
    \/ Gen
    \/ WriteVerilogOpen
    \/ WriteVerilogText
    \/ WriteVerilogClose
    \/ Finish

Spec == Init /\ [][Next]_vars

TypeOK ==
    /\ pc \in {"read_techfile", "read_infile", "parse_ops", "loop", "open", "write", "close",
               "done", "exited"}
    /\ exit_status \in {-1, 0, 1, 2}
    /\ report \in {"none", "ERROR", "Traceback"}
    /\ cur \in 0..Len(mem_list)
    /\ line_no \in 0..Len(infile)
    /\ tech_no \in 0..Len(techfile)
    /\ Len(gen_calls) = Len(mem_list)
    /\ Len(write_calls) = Len(mem_list)
    /\ \A n \in Names : files[n].state \in {"absent", "open", "closed"}

(***************************************************************************)
(* Vocabulary of the properties                                            *)
(***************************************************************************)
Requests == 1..Len(mem_list)

\* gen has run on request k
Generated(k) == k \in Requests /\ gen_calls[k] >= 1

\* gen has run on request k and chose a macro
Planned(k) == Generated(k) /\ mem_list[k].bank_type # NoBank

BankOf(k) == sram_list[mem_list[k].bank_type]

OpsOf(k) == {mem_list[k].ops[i] : i \in 1..Len(mem_list[k].ops)}

SetMax(S) == CHOOSE x \in S : \A y \in S : y <= x

\* the least q with q * b >= a, for a >= 0 and b > 0
Ceiling(a, b) == CHOOSE q \in 0..a : q * b >= a /\ (q = 0 \/ (q - 1) * b < a)

\* the macros the dual-port rule leaves to request k
Qualifying(k) ==
    {i \in 1..Len(sram_list) :
        ~(mem_list[k].need_dual_port /\ sram_list[i].ports < 2)}

StackV(k, i) ==
    Ceiling(Ceiling(mem_list[k].words, mem_list[k].distribution_factor),
            sram_list[i].words)

StackHH(k, i) == Ceiling(mem_list[k].width, sram_list[i].width)

EstimatedArea(k, i) ==
    mem_list[k].duplication_factor * mem_list[k].distribution_factor
        * StackV(k, i) * StackHH(k, i) * sram_list[i].area

(***************************************************************************)
(* C1                                                                      *)
(***************************************************************************)
\* C1: when no macro of the library qualifies for a request (the library is
\* empty, or need_dual_port holds and every macro has fewer than 2 ports),
\* the run ends with an error reported on the ERROR path and status 2, and
\* no file is written for the request.  (Fails: gen raises AttributeError.)
C1_NoSuitableMacroExit2 ==
    \A k \in Requests :
        (Generated(k) /\ Qualifying(k) = {}) =>
            /\ pc = "exited"
            /\ exit_status = 2
            /\ report = "ERROR"
            /\ write_calls[k] = 0
            /\ \A n \in Names : files[n].owner # k

(***************************************************************************)
(* C2                                                                      *)
(***************************************************************************)
\* C2: for every request whose planning succeeds, the chosen bank_type has
\* at least 2 ports whenever need_dual_port is true.
C2_DualPortChosen ==
    \A k \in Requests :
        (Planned(k) /\ mem_list[k].need_dual_port) => BankOf(k).ports >= 2

\* A dual-port macro was chosen although a single-port macro of the library
\* would have cost less.
C2_Witness ==
    /\ Planned(1)
    /\ mem_list[1].need_dual_port
    /\ BankOf(1).ports = 2
    /\ \E i \in 1..Len(sram_list) :
          /\ sram_list[i].ports = 1
          /\ EstimatedArea(1, i) < mem_list[1].area.v

(***************************************************************************)
(* C3                                                                      *)
(***************************************************************************)
\* C3: for every successfully planned request the tiled banks cover the
\* requested capacity: H * bank_type.words * V >= words and
\* HH * bank_type.width >= width.
C3_CapacityCovered ==
    \A k \in Requests :
        Planned(k) =>
            /\ mem_list[k].distribution_factor * BankOf(k).words * mem_list[k].vbanks
                  >= mem_list[k].words
            /\ mem_list[k].hhbanks * BankOf(k).width >= mem_list[k].width

\* A plan with several h-banks whose words and width are not multiples of
\* the macro's: the banks cover strictly more than requested.
C3_Witness ==
    /\ Planned(1)
    /\ mem_list[1].distribution_factor > 1
    /\ mem_list[1].vbanks > 1
    /\ mem_list[1].distribution_factor * BankOf(1).words * mem_list[1].vbanks
          > mem_list[1].words
    /\ mem_list[1].hhbanks * BankOf(1).width > mem_list[1].width

(***************************************************************************)
(* C4                                                                      *)
(***************************************************************************)
\* C4: the macro chosen is, among those the dual-port rule does not skip,
\* one of smallest estimated area D*H*V*HH*m.area, and the first of them in
\* library order; vbanks, hhbanks and area are the values of that macro, so
\* area = D*H*V*HH*bank_type.area.
C4_SmallestAreaFirstSeen ==
    \A k \in Requests :
        Planned(k) =>
            LET b == mem_list[k].bank_type IN
            /\ b \in Qualifying(k)
            /\ \A i \in Qualifying(k) : EstimatedArea(k, b) <= EstimatedArea(k, i)
            /\ \A i \in Qualifying(k) :
                  EstimatedArea(k, i) = EstimatedArea(k, b) => b <= i
            /\ mem_list[k].vbanks = StackV(k, b)
            /\ mem_list[k].hhbanks = StackHH(k, b)
            /\ ~mem_list[k].area.inf
            /\ mem_list[k].area.v =
                  mem_list[k].duplication_factor * mem_list[k].distribution_factor
                      * mem_list[k].vbanks * mem_list[k].hhbanks * BankOf(k).area

\* Two different qualifying macros tie on the smallest area and the one
\* listed first was chosen.
C4_Witness ==
    /\ Planned(1)
    /\ Len(sram_list) = 2
    /\ mem_list[1].bank_type = 1
    /\ sram_list[1] # sram_list[2]
    /\ Qualifying(1) = {1, 2}
    /\ EstimatedArea(1, 1) = EstimatedArea(1, 2)

(***************************************************************************)
(* C5                                                                      *)
(***************************************************************************)
\* The duplication contribution of an op, by the rows of the Pass 2 table
DupContribution(op) ==
    Max(IF op.rp = "unknown" /\ op.rn > 1
        THEN (IF op.wn = 0 THEN Ceiling(op.rn, 2) ELSE op.rn)
        ELSE 1,
        IF op.wp = "unknown" /\ op.wn > 1 /\ op.rn = 0
        THEN Ceiling(op.wn, 2)
        ELSE 1)

\* The distribution contribution of an op, by the rows of the Pass 2 table
DistContribution(op, parallel_rw) ==
    Max(IF op.rp = "modulo" /\ op.rn > 1
        THEN (IF op.wn > 0 \/ parallel_rw THEN op.rn ELSE op.rn \div 2)
        ELSE 1,
        IF op.wp = "modulo" /\ op.wn > 1
        THEN (IF op.rn > 0 \/ parallel_rw THEN op.wn ELSE op.wn \div 2)
        ELSE 1)

\* C5: duplication_factor is the largest duplication contribution of the
\* ops and distribution_factor the largest distribution contribution, the
\* latter taken with the request-wide need_parallel_rw.
C5_FactorsAreMaxContribution ==
    \A k \in Requests :
        Generated(k) =>
            /\ mem_list[k].duplication_factor =
                  SetMax({DupContribution(op) : op \in OpsOf(k)})
            /\ mem_list[k].distribution_factor =
                  SetMax({DistContribution(op, \E o \in OpsOf(k) : o.rn > 0 /\ o.wn > 0) :
                            op \in OpsOf(k)})
            /\ mem_list[k].dbanks = mem_list[k].duplication_factor
            /\ mem_list[k].hbanks = mem_list[k].distribution_factor

\* A read-only modulo op listed before the op that makes the request
\* parallel read/write: its contribution is not halved; a third factor, the
\* duplication, comes from the unknown reads of the second op.
C5_Witness ==
    /\ Generated(1)
    /\ Len(mem_list[1].ops) = 2
    /\ mem_list[1].ops[1] = memory_operation(4, "modulo", 0, "modulo")
    /\ mem_list[1].ops[2] = memory_operation(2, "unknown", 1, "modulo")
    /\ mem_list[1].distribution_factor = 4
    /\ mem_list[1].duplication_factor = 2

(***************************************************************************)
(* C6                                                                      *)
(***************************************************************************)
ParallelRW(ops) == \E i \in 1..Len(ops) : ops[i].rn > 0 /\ ops[i].wn > 0

DualPort(ops) ==
    \/ ParallelRW(ops)
    \/ \E i \in 1..Len(ops) : ops[i].wn = 2 /\ ops[i].wp = "unknown"
    \/ (~ParallelRW(ops) /\ \E i \in 1..Len(ops) : ops[i].rn > 1 \/ ops[i].wn > 1)

Reordered(ops, p) == [i \in 1..Len(ops) |-> ops[p[i]]]

\* C6: need_parallel_rw holds iff some op has rn > 0 and wn > 0, and
\* need_dual_port iff need_parallel_rw, or some op is 2 unknown writes, or
\* need_parallel_rw is false and some op has rn > 1 or wn > 1; planning any
\* reordering of the ops gives the same two values.
C6_PortNeedsOrderFree ==
    \A k \in Requests :
        Generated(k) =>
            LET m == mem_list[k] IN
            /\ m.need_parallel_rw = ParallelRW(m.ops)
            /\ m.need_dual_port = DualPort(m.ops)
            /\ \A p \in Permutations(1..Len(m.ops)) :
                  LET r == find_hbanks(memory(m.name, m.words, m.width,
                                              Reordered(m.ops, p)))
                  IN  /\ r.need_parallel_rw = m.need_parallel_rw
                      /\ r.need_dual_port = m.need_dual_port

\* The op with several reads is listed before the op that makes the request
\* parallel read/write.
C6_Witness ==
    /\ Generated(1)
    /\ Len(mem_list[1].ops) = 2
    /\ mem_list[1].ops[1].rn > 1 /\ mem_list[1].ops[1].wn = 0
    /\ mem_list[1].ops[2].rn = 1 /\ mem_list[1].ops[2].wn = 1
    /\ mem_list[1].need_parallel_rw
    /\ mem_list[1].need_dual_port

(***************************************************************************)
(* C7                                                                      *)
(***************************************************************************)
\* C7, as stated: read_interfaces is the largest rn of the ops and
\* write_interfaces the largest wn, also when every op has rn = 0 or every
\* op has wn = 0.
C7_InterfacesAreMax ==
    \A k \in Requests :
        Generated(k) =>
            /\ mem_list[k].read_interfaces = SetMax({op.rn : op \in OpsOf(k)})
            /\ mem_list[k].write_interfaces = SetMax({op.wn : op \in OpsOf(k)})

\* C7, amended: read_interfaces is the largest rn of the ops and
\* write_interfaces the largest wn, but never less than 1: a request whose
\* ops all have rn = 0 (wn = 0) still gets one read (write) interface.
C7_InterfacesAreMaxAtLeastOne ==
    \A k \in Requests :
        Generated(k) =>
            /\ mem_list[k].read_interfaces = SetMax({1} \cup {op.rn : op \in OpsOf(k)})
            /\ mem_list[k].write_interfaces = SetMax({1} \cup {op.wn : op \in OpsOf(k)})

\* A planned request none of whose ops reads, with several writes.
C7_Witness ==
    /\ Generated(1)
    /\ \A op \in OpsOf(1) : op.rn = 0
    /\ mem_list[1].read_interfaces = 1
    /\ mem_list[1].write_interfaces = 4

(***************************************************************************)
(* C8                                                                      *)
(***************************************************************************)
IsZeroOrPowerOfTwo(n) == n = 0 \/ \E e \in 0..n : 2 ^ e = n

PatternOf(abbrv) ==
    IF abbrv \in {"ru", "wu"} THEN "unknown"
    ELSE IF abbrv \in {"r", "w"} THEN "modulo"
    ELSE "unrecognized"

\* The constraints of an Operation of a memory of the given word count
OpConstraints(op, words) ==
    /\ op.rp \in {"modulo", "unknown"}
    /\ op.wp \in {"modulo", "unknown"}
    /\ 0 <= op.rn /\ op.rn <= 16
    /\ 0 <= op.wn /\ op.wn <= 16
    /\ op.rn <= words
    /\ op.wn <= words
    /\ (op.rp = "modulo" => IsZeroOrPowerOfTwo(op.rn))
    /\ (op.wp = "modulo" => IsZeroOrPowerOfTwo(op.wn))
    /\ (op.wp = "unknown" => op.wn <= 2)
    /\ (op.wp = "unknown" /\ op.wn = 2 => op.rn = 0)

OpOfToken(tok) ==
    memory_operation(tok.rnum, PatternOf(tok.rabbrv), tok.wnum, PatternOf(tok.wabbrv))

\* parse_op has ended the run on token j of the current line
DiedInParseOp(j) ==
    /\ pc = "exited"
    /\ line_no >= 1
    /\ j = tok_no
    /\ j <= Len(infile[line_no].toks)

\* C8: parse_op returns an Operation, holding the counts and patterns of
\* the token, if and only if the constraints hold; otherwise it ends the
\* run with an error (status 2); so every op of a constructed memory
\* satisfies the constraints.
C8_ParseOpAcceptsIffConstraints ==
    /\ line_no >= 1 =>
          LET l == infile[line_no] IN
          /\ \A j \in 1..Len(mem_ops) :
                /\ OpConstraints(OpOfToken(l.toks[j]), l.words)
                /\ mem_ops[j] = OpOfToken(l.toks[j])
          /\ \A j \in 1..Len(l.toks) :
                DiedInParseOp(j) =>
                    /\ ~OpConstraints(OpOfToken(l.toks[j]), l.words)
                    /\ exit_status = 2
                    /\ report = "ERROR"
          /\ pc # "exited" => tok_no = Len(mem_ops) + 1
    /\ \A k \in Requests : \A op \in OpsOf(k) : OpConstraints(op, mem_list[k].words)

\* 2wu:1r, within the word count, was rejected.
C8_Witness ==
    /\ line_no = 1
    /\ infile[1].toks[1] = Token(2, "wu", 1, "r")
    /\ infile[1].words >= 2
    /\ DiedInParseOp(1)
    /\ exit_status = 2

(***************************************************************************)
(* C9                                                                      *)
(***************************************************************************)
\* The port at position pos (from 1) of a module with W write and R read
\* interfaces
ExpectedPort(W, R, pos) ==
    IF pos = 1 THEN Port("CLK", -1)
    ELSE IF pos <= 1 + 5 * W
         THEN Port(<<"CE", "A", "D", "WE", "WEM">>[((pos - 2) % 5) + 1],
                   (pos - 2) \div 5)
         ELSE Port(<<"CE", "A", "Q">>[((pos - 2 - 5 * W) % 3) + 1],
                   W + ((pos - 2 - 5 * W) \div 3))

\* C9: the emitted module declares CLK first, then CE, A, D, WE, WEM of each
\* write interface i in [0, W), then CE, A, Q of each read interface i in
\* [W, W+R): 1 + 5*W + 3*R ports; data-in signals only below W, Q only
\* from W on; all inputs but the Q outputs.
C9_ModulePorts ==
    \A n \in Names :
        files[n].complete =>
            LET m == mem_list[files[n].owner]
                W == m.write_interfaces
                R == m.read_interfaces
                ports == files[n].ports
                decls == files[n].decls
            IN  /\ Len(ports) = 1 + 5 * W + 3 * R
                /\ \A pos \in 1..Len(ports) : ports[pos] = ExpectedPort(W, R, pos)
                /\ \A pos \in 1..Len(ports) :
                      /\ ports[pos].sig \in {"D", "WE", "WEM"} =>
                            ports[pos].i >= 0 /\ ports[pos].i < W
                      /\ ports[pos].sig = "Q" =>
                            ports[pos].i >= W /\ ports[pos].i < W + R
                /\ Len(decls) = Len(ports)
                /\ \A pos \in 1..Len(decls) :
                      /\ decls[pos].sig = ports[pos].sig
                      /\ decls[pos].i = ports[pos].i
                      /\ decls[pos].dir = IF decls[pos].sig = "Q" THEN "output" ELSE "input"

\* A module with 2 write interfaces followed by 4 read interfaces was
\* written.
C9_Witness ==
    /\ files["A"].complete
    /\ files["A"].state = "closed"
    /\ mem_list[1].write_interfaces = 2
    /\ mem_list[1].read_interfaces = 4
    /\ Len(files["A"].ports) = 23

(***************************************************************************)
(* C10                                                                     *)
(***************************************************************************)
NameOf(i) == mem_list[i].name

FileOf(i) == files[NameOf(i)]

\* the last request up to k that bears the name of request i
LastNamed(i, k) == SetMax({j \in 1..k : NameOf(j) = NameOf(i)})

\* Requests are handled in file order, each planned once and then emitted
\* once; a file is open only while its request is being emitted, and is
\* complete and closed before the next request is planned.
C10_Sequencing ==
    /\ \A i \in Requests : NameOf(i) = infile[i].name
    /\ \A i \in Requests : gen_calls[i] = (IF i <= cur THEN 1 ELSE 0)
    /\ \A i \in Requests : write_calls[i] <= gen_calls[i]
    /\ \A i \in Requests : i < cur => write_calls[i] = 1
    /\ (cur >= 1 /\ pc \in {"write", "close", "loop", "done"}) => write_calls[cur] = 1
    /\ (cur >= 1 /\ pc = "open") => write_calls[cur] = 0
    /\ pc = "done" => cur = Len(mem_list)
    /\ \A n \in Names :
          files[n].state = "open" =>
              pc \in {"write", "close"} /\ n = NameOf(cur) /\ files[n].owner = cur
    /\ pc \in {"loop", "done", "open"} =>
          \A i \in Requests :
              (i < cur \/ (i = cur /\ pc # "open")) =>
                  /\ FileOf(i).state = "closed"
                  /\ FileOf(i).complete
                  /\ FileOf(i).owner = LastNamed(i, IF pc = "open" THEN cur - 1 ELSE cur)

\* No request after the current one has created a file.
C10_NoLaterFile == \A n \in Names : files[n].owner <= cur

\* C10, as stated: requests are handled in file order, each planned once
\* and then emitted once, each file opened, written and closed before the
\* next request is planned; when a failure ends the run while handling
\* request k, the files of all requests before k are complete and in place
\* and no file of a request after k has been created.
C10_PriorFilesComplete ==
    /\ C10_Sequencing
    /\ C10_NoLaterFile
    /\ (pc = "exited" /\ cur >= 1) =>
          \A i \in 1..(cur - 1) : FileOf(i).state = "closed" /\ FileOf(i).complete

\* C10, amended: as stated, except that when the failure comes after
\* request k has reopened the file of an earlier request of the same name,
\* that file is left truncated or partial; the files of all other requests
\* before k are complete and in place.
C10_PriorFilesCompleteUnlessReopened ==
    /\ C10_Sequencing
    /\ C10_NoLaterFile
    /\ (pc = "exited" /\ cur >= 1) =>
          \A i \in 1..(cur - 1) :
              IF FileOf(i).owner = cur
              THEN NameOf(i) = NameOf(cur) /\ write_calls[cur] = 1
              ELSE /\ FileOf(i).state = "closed"
                   /\ FileOf(i).complete
                   /\ FileOf(i).owner = LastNamed(i, cur - 1)

\* The run failed while writing the second request: the file of the first
\* is complete and in place, that of the second is partial.
C10_Witness ==
    /\ pc = "exited"
    /\ cur = 2
    /\ NameOf(1) # NameOf(2)
    /\ FileOf(1).state = "closed" /\ FileOf(1).complete /\ FileOf(1).owner = 1
    /\ FileOf(2).owner = 2 /\ ~FileOf(2).complete

(***************************************************************************)
(* C11                                                                     *)
(***************************************************************************)
\* the lines that are neither blank nor comments
Stripped(lines) == SelectSeq(lines, LAMBDA l : l.first = "word")

RECURSIVE MacrosOf(_)
MacrosOf(lines) ==
    IF lines = <<>> THEN <<>>
    ELSE (IF Head(lines).ports \in {1, 2}
          THEN <<sram(Head(lines).words, Head(lines).width, Head(lines).area,
                      Head(lines).ports)>>
          ELSE <<>>) \o MacrosOf(Tail(lines))

MemoriesOf(lines) ==
    [i \in 1..Len(lines) |->
        memory(lines[i].name, lines[i].words, lines[i].width,
               ParsedOps(lines[i].toks, lines[i].words))]

\* C11: blank lines and lines beginning with '#' are ignored in lib.txt and
\* in the request file: the run does not fail because of them, the macro
\* list loaded is that of the file without those lines, and so is the
\* request list.  (Fails: a blank line raises IndexError in both readers.)
C11_BlankAndCommentLinesIgnored ==
    /\ pc # "exited"
    /\ pc # "read_techfile" => sram_list = MacrosOf(Stripped(techfile))
    /\ pc = "loop" => mem_list = MemoriesOf(Stripped(infile))

(***************************************************************************)
(* C12                                                                     *)
(***************************************************************************)
\* request k is for words x width with exactly the ops of toks
IsRequest(k, words, width, toks) ==
    /\ mem_list[k].words = words
    /\ mem_list[k].width = width
    /\ mem_list[k].ops = ParsedOps(toks, words)

\* the library holds the two macros of the scenarios and nothing else
TwoMacroLibrary ==
    {sram_list[i] : i \in 1..Len(sram_list)} = {SinglePort1024, DualPort1024}

\* C12 as stated: for the two-macro library and the request 2048 x 32 with
\* the single op 0w:4r, planning yields need_dual_port, the dual-port macro,
\* D = 1, H = 2, V = 2 and area 1*2*2*1*1.8 = 7.2.
C12_Scenario0w4r ==
    \A k \in Requests :
        (Generated(k) /\ TwoMacroLibrary
            /\ IsRequest(k, 2048, 32, <<Token(0, "w", 4, "r")>>)) =>
            /\ mem_list[k].need_dual_port
            /\ mem_list[k].bank_type # NoBank
            /\ BankOf(k) = DualPort1024
            /\ mem_list[k].duplication_factor = 1
            /\ mem_list[k].distribution_factor = 2
            /\ mem_list[k].vbanks = 2
            /\ mem_list[k].area = FiniteArea(72)

\* C12, amended: for the two-macro library and the request 2048 x 32 with
\* the single op 0w:4r, planning yields need_dual_port, the dual-port macro,
\* D = 1, H = 2, V = 1 (each of the 2 h-banks holds 1024 words, one macro
\* deep), HH = 1 and area 1*2*1*1*1.8 = 3.6.
C12_Scenario0w4rOneDeep ==
    \A k \in Requests :
        (Generated(k) /\ TwoMacroLibrary
            /\ IsRequest(k, 2048, 32, <<Token(0, "w", 4, "r")>>)) =>
            /\ mem_list[k].need_dual_port
            /\ ~mem_list[k].need_parallel_rw
            /\ mem_list[k].bank_type # NoBank
            /\ BankOf(k) = DualPort1024
            /\ mem_list[k].duplication_factor = 1
            /\ mem_list[k].distribution_factor = 2
            /\ mem_list[k].vbanks = 1
            /\ mem_list[k].hhbanks = 1
            /\ mem_list[k].area = FiniteArea(36)

\* The request of the scenario has been planned against the library in the
\* order single-port, dual-port.
C12_Witness ==
    /\ Generated(1)
    /\ sram_list = <<SinglePort1024, DualPort1024>>
    /\ IsRequest(1, 2048, 32, <<Token(0, "w", 4, "r")>>)
    /\ mem_list[1].bank_type = 2
    /\ mem_list[1].vbanks = 1

(***************************************************************************)
(* C13                                                                     *)
(***************************************************************************)
\* the file of request k
TextOf(k) == files[mem_list[k].name]

\* write_verilog has written the whole module of request k
Emitted(k) == k \in Requests /\ TextOf(k).owner = k /\ TextOf(k).complete

\* the routing assignments of the control block of request k
Routing(k) == {TextOf(k).ctrl[n] : n \in 1..Len(TextOf(k).ctrl)}

\* the number of check_access call-sites of the control block of request k
CheckAccessSites(k) ==
    Cardinality({n \in 1..Len(TextOf(k).ctrl) : TextOf(k).ctrl[n].check})

Scenario4w4r(k) ==
    /\ Generated(k)
    /\ TwoMacroLibrary
    /\ IsRequest(k, 1024, 32, <<Token(4, "w", 4, "r")>>)

Scenario4w4rPlan(k) ==
    /\ mem_list[k].bank_type # NoBank
    /\ BankOf(k) = DualPort1024
    /\ mem_list[k].distribution_factor = 4
    /\ mem_list[k].duplication_factor = 1

Scenario4w4rPorts(k) ==
    /\ \A i \in 0..3 : \E a \in Routing(k) : a.is_write /\ a.iface = i
    /\ \A i \in 4..7 : \E a \in Routing(k) : ~a.is_write /\ a.iface = i
    /\ \A a \in Routing(k) : a.port = (IF a.is_write THEN 0 ELSE 1)

\* C13 as stated: for the request 1024 x 32 with the single op 4w:4r
\* against the two-macro library, H = 4, D = 1, the dual-port macro; every
\* write interface is bound to port 0 and every read interface to port 1;
\* the control block contains 16 check_access call-sites.
C13_Scenario4w4r ==
    \A k \in Requests :
        Scenario4w4r(k) =>
            /\ Scenario4w4rPlan(k)
            /\ Emitted(k) => (Scenario4w4rPorts(k) /\ CheckAccessSites(k) = 16)

\* C13, amended: for the request 1024 x 32 with the single op 4w:4r against
\* the two-macro library, H = 4, D = 1, the dual-port macro; every write
\* interface is bound to port 0 and every read interface to port 1; the
\* control block contains 8 check_access call-sites, one per interface
\* (4 writes, 4 reads), each gated by h mod 4 == i.
C13_Scenario4w4rEightSites ==
    \A k \in Requests :
        Scenario4w4r(k) =>
            /\ Scenario4w4rPlan(k)
            /\ Emitted(k) =>
                  /\ Scenario4w4rPorts(k)
                  /\ CheckAccessSites(k) = 8
                  /\ \A a \in Routing(k) :
                        /\ a.gated
                        /\ a.gate_mod = 4
                        /\ a.gate_val = (IF a.is_write THEN a.iface ELSE a.iface - 4)

\* The module of the scenario has been written.
C13_Witness ==
    /\ Scenario4w4r(1)
    /\ Emitted(1)
    /\ Len(TextOf(1).ctrl) = 8

(***************************************************************************)
(* C14                                                                     *)
(***************************************************************************)
\* C14: for every op of an emitted request the control block holds, among
\* the assignments written for that op, one for each write interface
\* 0..wn-1 and one for each read interface W..W+rn-1.  (Fails: no kernel
\* matches 1ru reads, 1wu writes, or unknown reads next to unknown writes.)
C14_EveryInterfaceRouted ==
    \A k \in Requests :
        Emitted(k) =>
            \A j \in 1..Len(mem_list[k].ops) :
                LET op == mem_list[k].ops[j]
                    W == mem_list[k].write_interfaces
                IN  /\ \A wi \in 0..(op.wn - 1) :
                          \E a \in Routing(k) : a.op = j /\ a.is_write /\ a.iface = wi
                    /\ \A ri \in 0..(op.rn - 1) :
                          \E a \in Routing(k) : a.op = j /\ ~a.is_write /\ a.iface = W + ri

(***************************************************************************)
(* C15                                                                     *)
(***************************************************************************)
\* the h-gate of assignment a lets h-bank h through
GateOpen(a, h) == ~a.gated \/ h % a.gate_mod = a.gate_val

WriteOnlyModulo(op) == op.wp = "modulo" /\ op.wn > 0 /\ op.rn = 0

ReadOnlyModulo(op) == op.rp = "modulo" /\ op.rn > 0 /\ op.wn = 0

\* C15: in an emitted request with need_parallel_rw false, two distinct
\* interfaces of one write-only or read-only modulo op whose h-gates are
\* both open for some h-bank are bound to different ports of the banks of
\* a duplicated set.  (Fails: 2w:0r and 0w:2r alone give H = 1 and both
\* interfaces get port 0.)
C15_ModuloInterfacesOnDistinctPorts ==
    \A k \in Requests :
        (Emitted(k) /\ ~mem_list[k].need_parallel_rw) =>
            \A j \in 1..Len(mem_list[k].ops) :
                (WriteOnlyModulo(mem_list[k].ops[j]) \/ ReadOnlyModulo(mem_list[k].ops[j])) =>
                    \A a, b \in Routing(k) :
                        (/\ a.op = j
                         /\ b.op = j
                         /\ a.iface # b.iface
                         /\ a.set = b.set
                         /\ \E h \in 0..(mem_list[k].hbanks - 1) :
                               GateOpen(a, h) /\ GateOpen(b, h))
                            => a.port # b.port

(***************************************************************************)
(* C16                                                                     *)
(***************************************************************************)
\* C16: in an emitted request, two distinct read interfaces of an op with
\* rn > 1 unknown reads and no writes are bound to different (duplicated
\* set, port) pairs.  (Fails when D is odd and rn > D: 2ru:0w alone binds
\* both reads to port 0 of set 0.)
C16_UnknownReadsOnDistinctSetPorts ==
    \A k \in Requests :
        Emitted(k) =>
            \A j \in 1..Len(mem_list[k].ops) :
                LET op == mem_list[k].ops[j]
                IN  (op.rn > 1 /\ op.rp = "unknown" /\ op.wn = 0) =>
                        \A a, b \in Routing(k) :
                            (a.op = j /\ b.op = j /\ a.iface # b.iface) =>
                                <<a.set, a.port>> # <<b.set, b.port>>

(***************************************************************************)
(* C17                                                                     *)
(***************************************************************************)
\* C17: in an emitted request with need_parallel_rw true every routing
\* assignment binds a write interface to port 0 and a read interface to
\* port 1.  (Fails: the kernels of 2wu:0r and <N>ru:0w ignore
\* need_parallel_rw.)
C17_ParallelRWPorts ==
    \A k \in Requests :
        (Emitted(k) /\ mem_list[k].need_parallel_rw) =>
            \A a \in Routing(k) : a.port = (IF a.is_write THEN 0 ELSE 1)

(***************************************************************************)
(* C18                                                                     *)
(***************************************************************************)
\* C18: in an emitted request, for every routing assignment of a read
\* interface i, the duplicated set is the one ctrld[i] selects and the port
\* is the one Q_i is read back from.  (Fails: the control block numbers
\* the reads of an op from 0, the readback from W.)
C18_ReadbackMatchesControl ==
    \A k \in Requests :
        Emitted(k) =>
            \A a \in Routing(k) :
                ~a.is_write =>
                    /\ a.iface \in DOMAIN TextOf(k).ctrld
                    /\ a.set = TextOf(k).ctrld[a.iface]
                    /\ a.port = TextOf(k).readq[a.iface]

(***************************************************************************)
(* C19                                                                     *)
(***************************************************************************)
\* C19: in an emitted file the translate_off and translate_on markers
\* alternate, starting with translate_off, and the last one is a
\* translate_on.  (Fails with a single-port macro: the translate_on of the
\* address-conflict assertion is written once per pair of ports.)
C19_GuardsBalanced ==
    \A k \in Requests :
        Emitted(k) =>
            LET g == TextOf(k).guards
            IN  /\ \A n \in 1..Len(g) : g[n] = (IF n % 2 = 1 THEN "off" ELSE "on")
                /\ Len(g) % 2 = 0

====
